---- MODULE Spec2Model ----
(***************************************************************************)
(* Model of the analysis controller of the chess application: the review   *)
(* pipeline (AnalysisController.runGameReview / _getStaticEvaluation /     *)
(* _classifyMove, src/analysis.js), the parts of ChessGame that drive it   *)
(* (initGame, enterAnalysisMode, navigateToMove, updateGameState, play     *)
(* moves, src/script.js) and the opening table (src/unnamed/part_000).     *)
(*                                                                         *)
(* The UCI engine and chess.js are external collaborators.  The engine is  *)
(* an oracle that answers the commands posted to it with `info` and        *)
(* `bestmove` lines; every line carries, as a ghost field, the search that *)
(* produced it.  chess.js is reduced to what the controller reads from it: *)
(* the SAN history, the side to move, the PGN text and game_over().        *)
(* Strings whose characters matter (PGN text) are sequences of one         *)
(* character strings.                                                      *)
(***************************************************************************)
EXTENDS Integers, Sequences, FiniteSets, TLC

VARIABLES app, ac, eng, runs, cnt, probe

vars == <<app, ac, eng, runs, cnt, probe>>

(***************************************************************************)
(* Bounds of the model.                                                    *)
(***************************************************************************)
\* plies of the longest game that is played and reviewed
MaxPly == 2
\* review runs started in one behaviour
MaxRuns == 2
\* times analysis mode is entered in one behaviour
MaxSessions == 2
\* times a new game is started (restart / exit analysis) in one behaviour
MaxRestarts == 1
\* `info` lines the engine emits for one search
MaxInfo == 1
\* engine lines in flight beyond which the user and the engine wait
MaxOutbox == 1

(***************************************************************************)
(* Program constants.                                                      *)
(***************************************************************************)
MULTI_PV == 2
CRITICAL_SWING == 200
MATE_SCORE == 10000
REVIEW_DEPTH == 14
LIVE_EVAL_DEPTH == 18
\* DIFFICULTY_SETTINGS[3].depth
AI_DEPTH == 2
Null == -2

\* centipawn scores the engine oracle reports
CpValues == {0, 250}

(***************************************************************************)
(* Text.                                                                   *)
(***************************************************************************)
IsSpace(c) == c = " "

StartsWith(s, p) == Len(p) <= Len(s) /\ SubSeq(s, 1, Len(p)) = p

RECURSIVE TrimStart(_)
TrimStart(s) ==
  IF s # <<>> /\ IsSpace(Head(s)) THEN TrimStart(Tail(s)) ELSE s

RECURSIVE TrimEnd(_)
TrimEnd(s) ==
  IF s # <<>> /\ IsSpace(s[Len(s)]) THEN TrimEnd(SubSeq(s, 1, Len(s) - 1)) ELSE s

Trim(s) == TrimEnd(TrimStart(s))

OPENINGS ==
  <<
    [pgn |-> <<"1", ".", " ", "e", "4">>,
     name |-> "King's Pawn Opening"],
    [pgn |-> <<"1", ".", " ", "d", "4">>,
     name |-> "Queen's Pawn Opening"],
    [pgn |-> <<"1", ".", " ", "c", "4">>,
     name |-> "English Opening"],
    [pgn |-> <<"1", ".", " ", "N", "f", "3">>,
     name |-> "Zukertort Opening"],
    [pgn |-> <<"1", ".", " ", "f", "4">>,
     name |-> "Bird's Opening"],
    [pgn |-> <<"1", ".", " ", "e", "4", " ", "e", "5">>,
     name |-> "King's Pawn Game"],
    [pgn |-> <<"1", ".", " ", "e", "4", " ", "e", "5", " ", "2", ".", " ", "N", "f", "3", " ", "N", "c", "6", " ", "3", ".", " ", "B", "c", "4">>,
     name |-> "Italian Game"],
    [pgn |-> <<"1", ".", " ", "e", "4", " ", "e", "5", " ", "2", ".", " ", "N", "f", "3", " ", "N", "c", "6", " ", "3", ".", " ", "B", "c", "4", " ", "B", "c", "5">>,
     name |-> "Giuoco Piano"],
    [pgn |-> <<"1", ".", " ", "e", "4", " ", "e", "5", " ", "2", ".", " ", "N", "f", "3", " ", "N", "c", "6", " ", "3", ".", " ", "B", "b", "5">>,
     name |-> "Ruy Lopez"],
    [pgn |-> <<"1", ".", " ", "e", "4", " ", "e", "5", " ", "2", ".", " ", "N", "f", "3", " ", "N", "c", "6", " ", "3", ".", " ", "d", "4">>,
     name |-> "Scotch Game"],
    [pgn |-> <<"1", ".", " ", "e", "4", " ", "e", "5", " ", "2", ".", " ", "N", "f", "3", " ", "d", "6">>,
     name |-> "Philidor Defence"],
    [pgn |-> <<"1", ".", " ", "e", "4", " ", "e", "5", " ", "2", ".", " ", "f", "4">>,
     name |-> "King's Gambit"],
    [pgn |-> <<"1", ".", " ", "e", "4", " ", "c", "5">>,
     name |-> "Sicilian Defence"],
    [pgn |-> <<"1", ".", " ", "e", "4", " ", "c", "6">>,
     name |-> "Caro-Kann Defence"],
    [pgn |-> <<"1", ".", " ", "e", "4", " ", "d", "5">>,
     name |-> "Scandinavian Defence"],
    [pgn |-> <<"1", ".", " ", "e", "4", " ", "e", "6">>,
     name |-> "French Defence"],
    [pgn |-> <<"1", ".", " ", "d", "4", " ", "d", "5">>,
     name |-> "Queen's Pawn Game"],
    [pgn |-> <<"1", ".", " ", "d", "4", " ", "d", "5", " ", "2", ".", " ", "c", "4">>,
     name |-> "Queen's Gambit"],
    [pgn |-> <<"1", ".", " ", "d", "4", " ", "d", "5", " ", "2", ".", " ", "c", "4", " ", "d", "x", "c", "4">>,
     name |-> "Queen's Gambit Accepted"],
    [pgn |-> <<"1", ".", " ", "d", "4", " ", "d", "5", " ", "2", ".", " ", "c", "4", " ", "e", "6">>,
     name |-> "Queen's Gambit Declined"],
    [pgn |-> <<"1", ".", " ", "d", "4", " ", "N", "f", "6">>,
     name |-> "Indian Defence"],
    [pgn |-> <<"1", ".", " ", "d", "4", " ", "N", "f", "6", " ", "2", ".", " ", "c", "4", " ", "g", "6">>,
     name |-> "King's Indian Defence"],
    [pgn |-> <<"1", ".", " ", "d", "4", " ", "N", "f", "6", " ", "2", ".", " ", "c", "4", " ", "e", "6", " ", "3", ".", " ", "N", "c", "3", " ", "B", "b", "4">>,
     name |-> "Nimzo-Indian Defence"],
    [pgn |-> <<"1", ".", " ", "d", "4", " ", "N", "f", "6", " ", "2", ".", " ", "c", "4", " ", "e", "6", " ", "3", ".", " ", "N", "f", "3", " ", "b", "6">>,
     name |-> "Queen's Indian Defence"],
    [pgn |-> <<"1", ".", " ", "d", "4", " ", "f", "5">>,
     name |-> "Dutch Defence"]
  >>

(***************************************************************************)
(* chess.js, as far as the controller reads it.                            *)
(***************************************************************************)
\* the line of play; a game is a prefix of it
MasterLine == <<"e4", "e5", "Nf3", "Nc6", "Bb5">>

SanChars(san) ==
  CASE san = "e4"  -> <<"e", "4">>
    [] san = "e5"  -> <<"e", "5">>
    [] san = "Nf3" -> <<"N", "f", "3">>
    [] san = "Nc6" -> <<"N", "c", "6">>
    [] san = "Bb5" -> <<"B", "b", "5">>

Digits == <<"1", "2", "3", "4", "5", "6", "7", "8", "9">>

\* side that plays the move with 0-based index i
ColorOfPly(i) == IF i % 2 = 0 THEN "w" ELSE "b"

\* side to move after the moves of h
Turn(h) == ColorOfPly(Len(h))

\* Chess.pgn({ max_width: 5, newline_char: ' ' }) of a game without headers:
\* move strings "n. white black", separated by one blank (the wrap branch
\* pushes newline_char, the other branch a blank, both are ' ')
RECURSIVE Pgn(_)
Pgn(h) ==
  IF h = <<>> THEN <<>>
  ELSE LET k == Len(h)
           before == Pgn(SubSeq(h, 1, k - 1))
       IN IF k % 2 = 1
          THEN before \o (IF k > 1 THEN <<" ">> ELSE <<>>)
                      \o <<Digits[(k + 1) \div 2], ".">> \o <<" ">> \o SanChars(h[k])
          ELSE before \o <<" ">> \o SanChars(h[k])

\* Chess.fen(): the position reached by h; the text holds ' w ' or ' b '
Fen(h) == [moves |-> h, turn |-> Turn(h)]

\* fen.includes(' w ')
FenIncludesW(fen) == fen.turn = "w"

(***************************************************************************)
(* AnalysisController: pure parts.                                         *)
(***************************************************************************)
\* the PGN-so-far handed to the classifier for ply i of history h
CurrentPgn(h, i) ==
  Pgn(SubSeq(h, 1, i)) \o <<" ">> \o (IF i > 0 THEN <<>> ELSE <<" ">>)
                       \o SanChars(h[i + 1])

OpeningMatch(pgn) ==
  \E k \in 1..Len(OPENINGS) :
     /\ StartsWith(OPENINGS[k].pgn, Trim(pgn))
     /\ Len(Trim(pgn)) <= Len(OPENINGS[k].pgn)

\* the loss ladder consulted before the opening table
_classifyMoveLadderFirst(loss, pgn, isCritical) ==
  IF isCritical /\ loss < 10 THEN "Brilliant"
  ELSE IF loss > 150 THEN "Blunder"
  ELSE IF loss > 80 THEN "Mistake"
  ELSE IF loss > 30 THEN "Inaccuracy"
  ELSE IF loss > 10 THEN "Okay"
  ELSE IF OpeningMatch(pgn) THEN "Theory"
  ELSE IF loss > 2 THEN "Excellent"
  ELSE "Best"

\* the ladder with inclusive thresholds
_classifyMoveInclusive(loss, pgn, isCritical) ==
  IF OpeningMatch(pgn) THEN "Theory"
  ELSE IF isCritical /\ loss <= 10 THEN "Brilliant"
  ELSE IF loss >= 150 THEN "Blunder"
  ELSE IF loss >= 80 THEN "Mistake"
  ELSE IF loss >= 30 THEN "Inaccuracy"
  ELSE IF loss >= 10 THEN "Okay"
  ELSE IF loss >= 2 THEN "Excellent"
  ELSE "Best"

\* the ladder with the names of its two worst tiers exchanged
_classifyMoveLabelsSwapped(loss, pgn, isCritical) ==
  IF OpeningMatch(pgn) THEN "Theory"
  ELSE IF isCritical /\ loss < 10 THEN "Brilliant"
  ELSE IF loss > 150 THEN "Mistake"
  ELSE IF loss > 80 THEN "Blunder"
  ELSE IF loss > 30 THEN "Inaccuracy"
  ELSE IF loss > 10 THEN "Okay"
  ELSE IF loss > 2 THEN "Excellent"
  ELSE "Best"

_classifyMove(loss, pgn, isCritical) ==
  IF OpeningMatch(pgn) THEN "Theory"
  ELSE IF isCritical /\ loss < 10 THEN "Brilliant"
  ELSE IF loss > 150 THEN "Blunder"
  ELSE IF loss > 80 THEN "Mistake"
  ELSE IF loss > 30 THEN "Inaccuracy"
  ELSE IF loss > 10 THEN "Okay"
  ELSE IF loss > 2 THEN "Excellent"
  ELSE "Best"

Abs(x) == IF x < 0 THEN -x ELSE x

\* a swing of exactly the threshold counted as critical
IsCriticalInclusive(evaluations) == Abs(evaluations[1] - evaluations[2]) >= CRITICAL_SWING

IsCritical(evaluations) == Abs(evaluations[1] - evaluations[2]) > CRITICAL_SWING

\* the loss taken from White's side whoever moved
LossWhiteOnly(color, lastEval, evaluations) == lastEval[1] - evaluations[1]

Loss(color, lastEval, evaluations) ==
  IF color = "w" THEN lastEval[1] - evaluations[1]
                 ELSE evaluations[1] - lastEval[1]

InitialLastEval == <<20, 15>>

\* scores is the object keyed by pvIndex; x || y of JavaScript
Truthy(scores, k) == k \in DOMAIN scores /\ scores[k] # 0

\* no fallback to the best rank that reported: a missing rank counts 0
FirstValueZero(scores) == 0

FirstValue(scores) ==
  IF DOMAIN scores = {} THEN 0
  ELSE scores[CHOOSE k \in DOMAIN scores : \A j \in DOMAIN scores : k <= j]

\* the score left in the perspective of the side to move
FinalScoreOfMover(scores, isWhiteTurn, i) ==
  IF Truthy(scores, i) THEN scores[i] ELSE FirstValue(scores)

FinalScore(scores, isWhiteTurn, i) ==
  LET scoreFromPlayer == IF Truthy(scores, i) THEN scores[i] ELSE FirstValue(scores)
  IN IF isWhiteTurn THEN scoreFromPlayer ELSE -scoreFromPlayer

FinalScores(scores, isWhiteTurn) ==
  [i \in 1..MULTI_PV |-> FinalScore(scores, isWhiteTurn, i - 1)]

\* scores[pvIndex] = ... of onMessage
ReportScore(scores, pvIndex, v) ==
  [k \in DOMAIN scores \cup {pvIndex} |-> IF k = pvIndex THEN v ELSE scores[k]]

\* a mate line stored as its distance in moves
ScoreLineMateDistance(scores, pvIndex, kind, n) ==
  IF kind \in {"mate", "cp"} THEN ReportScore(scores, pvIndex, n) ELSE scores

\* the multipv branch of onMessage: kind is "mate" for a line holding
\* `score mate n`, "cp" for one holding `score cp n`, "none" for neither
ScoreLine(scores, pvIndex, kind, n) ==
  IF kind = "mate"
  THEN ReportScore(scores, pvIndex, IF n > 0 THEN MATE_SCORE ELSE -MATE_SCORE)
  ELSE IF kind = "cp" THEN ReportScore(scores, pvIndex, n)
  ELSE scores

NoScores == [k \in {} |-> 0]

(***************************************************************************)
(* The engine oracle.  Commands take effect when they are posted; the      *)
(* lines the engine answers with wait in eng.outbox until delivered.       *)
(***************************************************************************)
NoTag == <<"none", 0, 0>>
LiveTag == <<"live", 0, 0>>
PlayTag == <<"play", 0, 0>>
AiTag == <<"ai", 0, 0>>
ReviewTag(r, i) == <<"review", r, i>>

NoSearch == [tag |-> NoTag, kind |-> "none", fen |-> Fen(<<>>), multipv |-> 1]

Searching(w) == w.eng.search.kind # "none"

BestmoveMsg(search) ==
  [t |-> "bestmove", tag |-> search.tag, fen |-> search.fen, pv |-> 0,
   kind |-> "none", cp |-> 0]

InfoMsg(search, pv, cp) ==
  [t |-> "info", tag |-> search.tag, fen |-> search.fen, pv |-> pv,
   kind |-> "cp", cp |-> cp]

\* a command as posted: cmd names it, fen is the FEN of `position fen`, n the
\* value of `setoption name MultiPV value`
Command(cmd, fen, n) == [cmd |-> cmd, fen |-> fen, n |-> n]

\* eng.sent is the transcript of the commands the handler being run has
\* posted so far
Sent(w, command) == [w EXCEPT !.eng.sent = Append(@, command)]

\* the commands posted between w0 and w1 are those run r posts while it is
\* in progress (from its guard to the end of its loop): they are added to
\* its transcript (ghost field posted)
Posting(w0, w1, r) ==
  [w1 EXCEPT !.runs[r].posted =
      @ \o SubSeq(w1.eng.sent, Len(w0.eng.sent) + 1, Len(w1.eng.sent))]

\* a running search ends and reports its bestmove
EndSearch(w) ==
  IF Searching(w)
  THEN [w EXCEPT !.eng.outbox = Append(@, BestmoveMsg(w.eng.search)),
                 !.eng.search = NoSearch,
                 !.eng.infos = 0]
  ELSE w

\* postMessage('stop')
PostStop(w) == EndSearch(Sent(w, Command("stop", Fen(<<>>), 0)))

\* postMessage('setoption name MultiPV value v')
PostSetOption(w, v) ==
  [Sent(w, Command("setoption", Fen(<<>>), v)) EXCEPT !.eng.multiPV = v]

\* postMessage('position fen ...')
PostPosition(w, fen) == [Sent(w, Command("position", fen, 0)) EXCEPT !.eng.pos = fen]

\* the depth of `go depth`: REVIEW_DEPTH for a request of the review,
\* settings.depth for the move of the AI, LIVE_EVAL_DEPTH for the live
\* evaluation of play; `go infinite` has none
GoDepth(kind, tag) ==
  IF kind # "depth" THEN 0
  ELSE IF tag[1] = "review" THEN REVIEW_DEPTH
  ELSE IF tag[1] = "ai" THEN AI_DEPTH
  ELSE LIVE_EVAL_DEPTH

\* postMessage('go ...'), kind "infinite" or "depth": every search answers
\* with one bestmove, so a search still running ends (reporting its bestmove)
\* before the new one begins
PostGo(w, kind, tag) ==
  LET w1 == EndSearch(Sent(w, Command(kind, Fen(<<>>), GoDepth(kind, tag))))
  IN [w1 EXCEPT !.eng.search = [tag |-> tag, kind |-> kind,
                                fen |-> w1.eng.pos, multipv |-> w1.eng.multiPV],
                !.eng.infos = 0]

(***************************************************************************)
(* AnalysisController: live analysis.                                      *)
(***************************************************************************)
\* currentAnalysisInfo: has is false for the empty object; line is a ghost
\* field, the info line the stored score was taken from
NoAnalysisInfo == [has |-> FALSE, numericScore |-> 0, line |-> <<>>]

_clearAnalysisUI(w) == [w EXCEPT !.ac.currentAnalysisInfo = NoAnalysisInfo]

analyzePosition(w, fen) ==
  IF ~w.ac.isAnalyzing \/ w.ac.isReviewing THEN w
  ELSE PostGo(PostPosition(w, fen), "infinite", LiveTag)

\* onPositionChanged starting the new search before it cancels the old one
onPositionChangedGoFirst(w, fen, moveIndex) ==
  IF ~w.ac.isAnalyzing THEN w
  ELSE LET w1 == [w EXCEPT !.ac.currentMoveIndex = moveIndex]
           w2 == IF w1.ac.isInfiniteAnalysis /\ ~w1.ac.isReviewing
                 THEN analyzePosition(w1, fen)
                 ELSE w1
       IN _clearAnalysisUI(PostStop(w2))

onPositionChanged(w, fen, moveIndex) ==
  IF ~w.ac.isAnalyzing THEN w
  ELSE LET w1 == _clearAnalysisUI(PostStop([w EXCEPT !.ac.currentMoveIndex = moveIndex]))
       IN IF w1.ac.isInfiniteAnalysis /\ ~w1.ac.isReviewing
          THEN analyzePosition(w1, fen)
          ELSE w1

\* a toggle handler that empties the live accumulator when switched off
toggleChangeClears(w, checked) ==
  LET w1 == [w EXCEPT !.ac.isInfiniteAnalysis = checked]
  IN IF checked THEN analyzePosition(w1, Fen(w1.app.reviewGame))
     ELSE _clearAnalysisUI(PostStop(w1))

\* the change handler of the continuous-analysis toggle (_bindUIEvents); the
\* checkbox and isInfiniteAnalysis are written together, checked is the new
\* state of the checkbox
toggleChange(w, checked) ==
  LET w1 == [w EXCEPT !.ac.isInfiniteAnalysis = checked]
  IN IF checked THEN analyzePosition(w1, Fen(w1.app.reviewGame)) ELSE PostStop(w1)

stop(w) ==
  LET w1 == PostStop([w EXCEPT !.ac.isAnalyzing = FALSE])
  IN [w1 EXCEPT !.ac.chart = <<>>]

start(w, gameHistory) ==
  analyzePosition([w EXCEPT !.ac.game = gameHistory,
                            !.ac.isAnalyzing = TRUE,
                            !.ac.isReviewing = FALSE,
                            !.ac.gameReviewData = <<>>,
                            !.ac.btnDisabled = FALSE,
                            !.ac.btnText = "Run Game Review"],
                  Fen(w.app.reviewGame))

(***************************************************************************)
(* ChessGame: play mode and navigation.  The human plays White.            *)
(***************************************************************************)
humanPlayer == "w"
aiPlayer == "b"

_requestLiveEvaluation(w) ==
  IF w.app.isStockfishThinking \/ w.app.gameOver THEN w
  ELSE PostGo(PostPosition(w, Fen(w.app.game)), "depth", PlayTag)

endGame(w) ==
  LET w1 == PostStop(w)
  IN [w1 EXCEPT !.app.gameActive = FALSE,
                !.app.isStockfishThinking = FALSE,
                !.app.modalOpen = TRUE]

\* DIFFICULTY_SETTINGS[level].type, for the levels 1 (the stored default) and 3
SettingsType(level) == IF level = 1 THEN "random" ELSE "stockfish"

\* level 1: a random legal move, played by a timer; level 3: the bestmove of
\* a search of the current position at settings.depth
makeAiMove(w) ==
  IF ~w.app.gameActive \/ w.app.gameOver THEN w
  ELSE LET w1 == [w EXCEPT !.app.isStockfishThinking = TRUE]
       IN IF SettingsType(w1.app.aiDifficulty) = "random"
          THEN [w1 EXCEPT !.app.aiTimers = @ \cup {Len(w.app.game)}]
          ELSE PostGo(PostPosition(w1, Fen(w1.app.game)), "depth", AiTag)

updateGameState(w) ==
  LET isLivePlay == w.app.viewingMoveIndex = Null /\ ~w.app.isInAnalysisMode
      w1 == IF ~w.app.isInAnalysisMode THEN _requestLiveEvaluation(w) ELSE w
  IN IF w1.app.gameOver /\ ~w1.app.isInAnalysisMode /\ w1.app.gameActive
     THEN endGame(w1)
     ELSE IF Turn(w1.app.game) = aiPlayer /\ ~w1.app.isStockfishThinking /\ isLivePlay
     THEN makeAiMove(w1)
     ELSE w1

navigateToMove(w, index) ==
  LET history == IF w.app.isInAnalysisMode THEN w.app.reviewGame ELSE w.app.game
      toEnd == index = Null \/ index >= Len(history) - 1
      viewing == IF toEnd THEN Null ELSE IF index < 0 THEN 0 ELSE index
      targetFen == IF toEnd THEN Fen(history) ELSE Fen(SubSeq(history, 1, viewing + 1))
      w1 == updateGameState([w EXCEPT !.app.viewingMoveIndex = viewing])
  IN IF w1.app.isInAnalysisMode THEN onPositionChanged(w1, targetFen, viewing) ELSE w1

\* game_over() of chess.js: the line of play ends after MaxPly plies
GameOver(h) == Len(h) >= MaxPly

\* game.move(...) of a legal move
GameMove(w) ==
  [w EXCEPT !.app.game = Append(@, MasterLine[Len(@) + 1]),
            !.app.gameOver = GameOver(Append(w.app.game, MasterLine[Len(w.app.game) + 1]))]

_makeUserMove(w) == updateGameState(GameMove(w))

\* legal: the move is a legal move of the current position
_performAiMove(w, legal) ==
  IF ~legal
  THEN updateGameState([w EXCEPT !.app.isStockfishThinking = FALSE])
  ELSE updateGameState([GameMove(w) EXCEPT !.app.isStockfishThinking = FALSE])

initGame(w) ==
  LET w1 == PostStop(w)
      w2 == stop([w1 EXCEPT !.app.modalOpen = FALSE,
                            !.app.game = <<>>,
                            !.app.gameOver = FALSE,
                            !.app.gameActive = TRUE,
                            !.app.isInAnalysisMode = FALSE,
                            !.app.viewingMoveIndex = Null])
      w3 == updateGameState(w2)
  IN \* the game was reset and the human plays White: it is not the AI's turn
     _requestLiveEvaluation(w3)

enterAnalysisMode(w) ==
  IF w.app.isInAnalysisMode THEN w
  ELSE LET w1 == PostStop([w EXCEPT !.app.isInAnalysisMode = TRUE,
                                    !.app.gameActive = FALSE])
           w2 == [w1 EXCEPT !.app.reviewGame = w1.app.game]
           w3 == start(w2, w2.app.game)
           w4 == navigateToMove(w3, Len(w3.app.reviewGame) - 1)
       IN [w4 EXCEPT !.app.modalOpen = FALSE]

(***************************************************************************)
(* AnalysisController: the review pipeline.  runs[r] is the r-th           *)
(* invocation of runGameReview: its local variables (history, i, lastEval),*)
(* its pending evaluation request and, as ghost fields, the classifier     *)
(* calls it made (log), the error it caught (err) and the engine commands  *)
(* it posted (posted).                                                     *)
(***************************************************************************)
\* req is the pending request of the run: the closure of _getStaticEvaluation
\* (fen, scores), whether its listener is registered and its timer armed, the
\* state of its promise (settled) and, as ghost fields, the number of times
\* its cleanup ran and whether only its own search spoke to it (own)
NoReq == [fen |-> Fen(<<>>), scores |-> NoScores, own |-> TRUE,
          listener |-> FALSE, timer |-> FALSE, settled |-> "pending", cleanups |-> 0]
NoErr == [kind |-> "none", fen |-> Fen(<<>>)]

NewRun(history) ==
  [history |-> history, i |-> 0, lastEval |-> InitialLastEval,
   status |-> "running", req |-> NoReq, log |-> <<>>, err |-> NoErr,
   posted |-> <<>>]

\* _getStaticEvaluation(currentFen, REVIEW_DEPTH, 2): listener and timer are
\* registered (status "awaiting"), then the three commands are posted
RequestEval(w, r) ==
  LET run == w.runs[r]
      fen == Fen(SubSeq(run.history, 1, run.i))
      w1 == [w EXCEPT !.runs[r].status = "awaiting",
                      !.runs[r].req = [fen |-> fen, scores |-> NoScores, own |-> TRUE,
                                      listener |-> TRUE, timer |-> TRUE,
                                      settled |-> "pending", cleanups |-> 0]]
  IN Posting(w1, PostGo(PostPosition(PostSetOption(w1, MULTI_PV), fen), "depth",
                        ReviewTag(r, run.i)), r)

\* _drawEvalChart: the data handed to the chart
ChartData(gameReviewData) ==
  <<20>> \o [k \in 1..Len(gameReviewData) |-> gameReviewData[k].score]

\* _updateMoveListWithReview reads gameReviewData[i].classification for every
\* move of this.game: it throws when an entry is missing
MoveListThrows(w) == Len(w.ac.gameReviewData) < Len(w.ac.game)

\* the end of the loop without _drawEvalChart
CompleteRunNoChart(w, r) ==
  LET w1 == [w EXCEPT !.ac.isReviewing = FALSE,
                      !.ac.btnText = "Review Complete",
                      !.ac.toggleDisabled = FALSE,
                      !.runs[r].status = "complete"]
  IN IF MoveListThrows(w1) THEN w1
     ELSE navigateToMove(w1, Len(w1.runs[r].history) - 1)

\* lines 175-180: the loop is over
CompleteRun(w, r) ==
  LET w1 == [w EXCEPT !.ac.isReviewing = FALSE,
                      !.ac.btnText = "Review Complete",
                      !.ac.toggleDisabled = FALSE,
                      !.runs[r].status = "complete"]
  IN IF MoveListThrows(w1) THEN w1
     ELSE navigateToMove([w1 EXCEPT !.ac.chart = ChartData(w1.ac.gameReviewData)],
                         Len(w1.runs[r].history) - 1)

\* loop head, line 148
RunLoop(w, r) ==
  IF w.runs[r].i < Len(w.runs[r].history)
  THEN RequestEval([w EXCEPT !.ac.btnText = "Reviewing"], r)
  ELSE CompleteRun(w, r)

\* lines 156-166: the body of the loop after the await, then the next turn
ResumeRun(w, r, evaluations) ==
  LET run == w.runs[r]
      i == run.i
      color == ColorOfPly(i)
      san == run.history[i + 1]
      isCritical == IsCritical(evaluations)
      loss == Loss(color, run.lastEval, evaluations)
      classification == _classifyMove(loss, CurrentPgn(run.history, i), isCritical)
      entry == [move |-> san, classification |-> classification,
                score |-> evaluations[1], isCritical |-> isCritical]
      call == [ply |-> i, loss |-> loss, isCritical |-> isCritical,
               classification |-> classification, evaluations |-> evaluations,
               lastEval |-> run.lastEval, own |-> run.req.own,
               cleanups |-> run.req.cleanups]
      w1 == [w EXCEPT !.ac.gameReviewData = Append(@, entry),
                      !.runs[r].log = Append(@, call),
                      !.runs[r].i = i + 1,
                      !.runs[r].lastEval = evaluations,
                      !.runs[r].status = "running"]
  IN RunLoop(w1, r)

\* a catch block without its return: the loop goes on with the next ply
CatchErrorContinues(w, r, error) ==
  RunLoop([w EXCEPT !.ac.btnText = "Review Failed!",
                    !.ac.isReviewing = FALSE,
                    !.ac.toggleDisabled = FALSE,
                    !.runs[r].err = error,
                    !.runs[r].i = @ + 1,
                    !.runs[r].status = "running"], r)

\* lines 167-173: the catch block
CatchError(w, r, error) ==
  [w EXCEPT !.ac.btnText = "Review Failed!",
            !.ac.isReviewing = FALSE,
            !.ac.toggleDisabled = FALSE,
            !.runs[r].status = "failed",
            !.runs[r].err = error]

\* a cleanup that clears the timer but leaves the listener registered
CleanupKeepsListener(w, r) ==
  Posting(w, PostSetOption([w EXCEPT !.runs[r].req.timer = FALSE,
                                     !.runs[r].req.cleanups = @ + 1], 1), r)

\* cleanup of _getStaticEvaluation: timer cleared, listener removed, MultiPV
\* reset
Cleanup(w, r) ==
  Posting(w, PostSetOption([w EXCEPT !.runs[r].req.timer = FALSE,
                                     !.runs[r].req.listener = FALSE,
                                     !.runs[r].req.cleanups = @ + 1], 1), r)

\* resolve(finalScores): a settled promise stays as it is, a pending one
\* resumes runGameReview after its await
Resolve(w, r, evaluations) ==
  IF w.runs[r].req.settled # "pending" THEN w
  ELSE ResumeRun([w EXCEPT !.runs[r].req.settled = "resolved"], r, evaluations)

\* reject(new Error(...)): a pending promise throws into the catch block
Reject(w, r, error) ==
  IF w.runs[r].req.settled # "pending" THEN w
  ELSE CatchError([w EXCEPT !.runs[r].req.settled = "rejected"], r, error)

\* a timer callback that cleans up and never rejects
OnTimeoutSilent(w, r) == Cleanup(w, r)

\* the timer of the request of run r fires
OnTimeout(w, r) ==
  Reject(Cleanup(w, r), r, [kind |-> "timeout", fen |-> w.runs[r].req.fen])

\* a listener that resolves before it cleans up: the pipeline goes on to the
\* next request before MultiPV is reset
OnMessageResolveFirst(w, r, msg) ==
  LET req == w.runs[r].req
      isOwn == msg.tag = ReviewTag(r, w.runs[r].i)
      w1 == IF msg.t = "info"
            THEN [w EXCEPT !.runs[r].req.scores = ScoreLine(@, msg.pv - 1, msg.kind, msg.cp),
                           !.runs[r].req.own = @ /\ isOwn]
            ELSE w
  IN IF msg.t = "bestmove"
     THEN Cleanup(Resolve([w1 EXCEPT !.runs[r].req.own = @ /\ isOwn], r,
                          FinalScores(w1.runs[r].req.scores, FenIncludesW(req.fen))), r)
     ELSE w1

\* onMessage of the request of run r
OnMessage(w, r, msg) ==
  LET req == w.runs[r].req
      isOwn == msg.tag = ReviewTag(r, w.runs[r].i)
      w1 == IF msg.t = "info"
            THEN [w EXCEPT !.runs[r].req.scores = ScoreLine(@, msg.pv - 1, msg.kind, msg.cp),
                           !.runs[r].req.own = @ /\ isOwn]
            ELSE w
  IN IF msg.t = "bestmove"
     THEN Resolve([Cleanup(w1, r) EXCEPT !.runs[r].req.own = @ /\ isOwn], r,
                  FinalScores(w1.runs[r].req.scores, FenIncludesW(req.fen)))
     ELSE w1

\* runGameReview without the guard of its first line
runGameReviewUnguarded(w) ==
  LET w1 == PostStop([w EXCEPT !.ac.isReviewing = TRUE,
                               !.ac.isInfiniteAnalysis = FALSE])
      w2 == [w1 EXCEPT !.ac.btnDisabled = TRUE,
                       !.ac.toggleDisabled = TRUE,
                       !.ac.gameReviewData = <<>>,
                       !.runs = Append(@, NewRun(w1.ac.game))]
  IN RunLoop(Posting(w, w2, Len(w2.runs)), Len(w2.runs))

runGameReview(w) ==
  IF w.ac.isReviewing THEN w
  ELSE LET w1 == PostStop([w EXCEPT !.ac.isReviewing = TRUE,
                                    !.ac.isInfiniteAnalysis = FALSE])
           w2 == [w1 EXCEPT !.ac.btnDisabled = TRUE,
                            !.ac.toggleDisabled = TRUE,
                            !.ac.gameReviewData = <<>>,
                            !.runs = Append(@, NewRun(w1.ac.game))]
       IN RunLoop(Posting(w, w2, Len(w2.runs)), Len(w2.runs))

(***************************************************************************)
(* Delivery of one engine line: the onmessage handler, then the listeners  *)
(* of the requests pending when the dispatch began, in registration order. *)
(***************************************************************************)
\* _parseEngineInfo: score mate and score cp, signed by the side to move of
\* app.state.reviewGame
_parseEngineInfo(w, msg) ==
  LET turn == Turn(w.app.reviewGame)
      numericScore ==
        IF msg.kind = "mate"
        THEN (IF turn = "b" THEN -1 ELSE 1)
               * (IF msg.cp > 0 THEN MATE_SCORE ELSE -MATE_SCORE)
        ELSE IF turn = "w" THEN msg.cp ELSE -msg.cp
  IN IF msg.kind \notin {"mate", "cp"} THEN w
     ELSE [w EXCEPT !.ac.currentAnalysisInfo =
                       [has |-> TRUE, numericScore |-> numericScore, line |-> <<msg>>]]

\* handleEngineMessage guarded by isAnalyzing only
handleEngineMessageInReview(w, msg) ==
  IF ~w.ac.isAnalyzing THEN w
  ELSE IF msg.t = "info" THEN _parseEngineInfo(w, msg)
  ELSE w

handleEngineMessage(w, msg) ==
  IF ~w.ac.isAnalyzing \/ w.ac.isReviewing THEN w
  ELSE IF msg.t = "info" THEN _parseEngineInfo(w, msg)
  ELSE w

_handleStockfishMessage(w, msg) ==
  IF w.app.isInAnalysisMode THEN handleEngineMessage(w, msg)
  ELSE IF msg.t = "bestmove" /\ w.app.isStockfishThinking
  THEN _performAiMove(w, msg.fen = Fen(w.app.game) /\ ~w.app.gameOver)
  ELSE w

RECURSIVE DispatchToRuns(_, _, _, _)
DispatchToRuns(w, w0, msg, r) ==
  IF r > Len(w0.runs) THEN w
  ELSE DispatchToRuns(IF w0.runs[r].req.listener THEN OnMessage(w, r, msg) ELSE w,
                      w0, msg, r + 1)

Dispatch(w, msg) == DispatchToRuns(_handleStockfishMessage(w, msg), w, msg, 1)

(***************************************************************************)
(* The state machine.                                                      *)
(***************************************************************************)
BlankApp ==
  [game |-> <<>>, gameOver |-> FALSE, gameActive |-> TRUE,
   isInAnalysisMode |-> FALSE, viewingMoveIndex |-> Null, reviewGame |-> <<>>,
   isStockfishThinking |-> FALSE, aiTimers |-> {}, modalOpen |-> FALSE,
   aiDifficulty |-> 1]

BlankController ==
  [game |-> <<>>, isAnalyzing |-> FALSE, isReviewing |-> FALSE,
   isInfiniteAnalysis |-> TRUE, gameReviewData |-> <<>>, currentMoveIndex |-> -1,
   currentAnalysisInfo |-> NoAnalysisInfo, chart |-> <<>>,
   btnDisabled |-> FALSE, btnText |-> "Run Game Review",
   toggleDisabled |-> FALSE]

IdleEngine ==
  [search |-> NoSearch, multiPV |-> 1, pos |-> Fen(<<>>), infos |-> 0, outbox |-> <<>>,
   sent |-> <<>>]

\* the state after the constructors, before _initializeApplication calls initGame
Blank ==
  [app |-> BlankApp, ac |-> BlankController, eng |-> IdleEngine, runs |-> <<>>]

NoProbe == [loss |-> 0, pgn |-> <<>>, isCritical |-> FALSE, result |-> "none"]

World == [app |-> app, ac |-> ac, eng |-> eng, runs |-> runs]

\* the handler returns: its transcript of posted commands ends with it
Commit(w) ==
  /\ app' = w.app
  /\ ac' = w.ac
  /\ eng' = [w.eng EXCEPT !.sent = <<>>]
  /\ runs' = w.runs

\* the application is initialised: initGame has run once
InitWorld ==
  LET w == initGame(Blank)
  IN /\ app = w.app
     /\ ac = w.ac
     /\ eng = [w.eng EXCEPT !.sent = <<>>]
     /\ runs = w.runs
     /\ cnt = [sessions |-> 0, restarts |-> 0]

Init == InitWorld /\ probe = NoProbe

UserQuiet == Len(eng.outbox) < MaxOutbox

\* the human drops a piece on a legal square (_onDrop -> _makeUserMove)
UserMove ==
  /\ app.gameActive /\ ~app.gameOver /\ ~app.isInAnalysisMode
  /\ app.viewingMoveIndex = Null
  /\ Turn(app.game) = humanPlayer /\ ~app.isStockfishThinking
  /\ Len(app.game) < MaxPly
  /\ Commit(_makeUserMove(World))
  /\ UNCHANGED <<cnt, probe>>

\* the timer set by makeAiMove fires: _performAiMove(move.san)
AiMoveTimer ==
  /\ \E n \in app.aiTimers :
          LET w == World
              legal == n = Len(app.game) /\ ~app.gameOver /\ Len(app.game) < MaxPly
          IN Commit(_performAiMove([w EXCEPT !.app.aiTimers = @ \ {n}], legal))
  /\ UNCHANGED <<cnt, probe>>

\* Analyze in the game-over modal, or the analysis tab of a finished game
EnterAnalysisMode ==
  /\ app.gameOver /\ ~app.isInAnalysisMode
  /\ cnt.sessions < MaxSessions
  /\ Commit(enterAnalysisMode(World))
  /\ cnt' = [cnt EXCEPT !.sessions = @ + 1]
  /\ UNCHANGED probe

\* Restart, New Game in the modal, or Exit Analysis
InitGameClick ==
  /\ cnt.restarts < MaxRestarts
  /\ Commit(initGame(World))
  /\ cnt' = [cnt EXCEPT !.restarts = @ + 1]
  /\ UNCHANGED probe

\* click on Run Game Review (the button is enabled and no modal covers it)
RunReviewClick ==
  /\ ~ac.btnDisabled
  /\ ~app.modalOpen
  /\ Len(runs) < MaxRuns
  /\ Commit(runGameReview(World))
  /\ UNCHANGED <<cnt, probe>>

\* navigation buttons and move list of analysis mode
Navigate ==
  /\ UserQuiet
  /\ app.isInAnalysisMode
  /\ \E index \in {Null} \cup 0..(Len(app.reviewGame) - 1) :
        Commit(navigateToMove(World, index))
  /\ UNCHANGED <<cnt, probe>>

\* change of the continuous-analysis toggle of the analysis panel
ToggleChange ==
  /\ UserQuiet
  /\ app.isInAnalysisMode
  /\ ~ac.toggleDisabled
  /\ Commit(toggleChange(World, ~ac.isInfiniteAnalysis))
  /\ UNCHANGED <<cnt, probe>>

\* the engine prints an info line of the running search
EngineInfo ==
  /\ eng.search.kind # "none"
  /\ eng.infos < MaxInfo
  /\ Len(eng.outbox) < MaxOutbox
  /\ \E cp \in CpValues :
        LET pv == (eng.infos % eng.search.multipv) + 1 IN
        eng' = [eng EXCEPT !.outbox = Append(@, InfoMsg(eng.search, pv, cp)),
                           !.infos = @ + 1]
  /\ UNCHANGED <<app, ac, runs, cnt, probe>>

\* a bounded search ends by itself
EngineBestmove ==
  /\ eng.search.kind = "depth"
  /\ Len(eng.outbox) < MaxOutbox
  /\ eng' = [eng EXCEPT !.outbox = Append(@, BestmoveMsg(eng.search)),
                        !.search = NoSearch, !.infos = 0]
  /\ UNCHANGED <<app, ac, runs, cnt, probe>>

\* the next engine line reaches the page
Deliver ==
  /\ eng.outbox # <<>>
  /\ Commit(Dispatch([World EXCEPT !.eng.outbox = Tail(@)], Head(eng.outbox)))
  /\ UNCHANGED <<cnt, probe>>

\* EVAL_TIMEOUT passes without a bestmove for the request of run r
Timeout ==
  /\ \E r \in 1..Len(runs) :
        /\ runs[r].req.timer
        /\ Commit(OnTimeout(World, r))
  /\ UNCHANGED <<cnt, probe>>

Next ==
  \/ UserMove
  \/ AiMoveTimer
  \/ EnterAnalysisMode
  \/ InitGameClick
  \/ RunReviewClick
  \/ Navigate
  \/ ToggleChange
  \/ EngineInfo
  \/ EngineBestmove
  \/ Deliver
  \/ Timeout

Spec == Init /\ [][Next]_vars

(***************************************************************************)
(* The classifier on its own: Init draws the arguments, Classify applies   *)
(* _classifyMove to them.                                                  *)
(***************************************************************************)
LossValues == {-40, 0, 2, 3, 9, 10, 11, 30, 31, 80, 81, 150, 151, 400}

OpeningPgns == {OPENINGS[k].pgn : k \in 1..Len(OPENINGS)}

\* every leading part of every table entry, the empty text included
OpeningPrefixes ==
  UNION {{SubSeq(p, 1, n) : n \in 0..Len(p)} : p \in OpeningPgns}

\* the texts the pipeline builds for the plies of the line of play
PipelinePgns == {CurrentPgn(MasterLine, i) : i \in 0..(Len(MasterLine) - 1)}

PgnInputs ==
  OpeningPrefixes
    \cup {<<" ">> \o p \o <<" ">> : p \in OpeningPgns}
    \cup {p \o <<" ", "a", "6">> : p \in OpeningPgns}
    \cup PipelinePgns
    \cup {Pgn(SubSeq(MasterLine, 1, n)) : n \in 0..Len(MasterLine)}
    \cup {<<"1", ".", " ", "h", "4">>}

InitClassify ==
  /\ InitWorld
  /\ probe \in {[loss |-> l, pgn |-> p, isCritical |-> c, result |-> "none"] :
                  l \in LossValues, p \in PgnInputs, c \in BOOLEAN}

Classify ==
  /\ probe.result = "none"
  /\ probe' = [probe EXCEPT !.result = _classifyMove(probe.loss, probe.pgn, probe.isCritical)]
  /\ UNCHANGED <<app, ac, eng, runs, cnt>>

NextClassify == Classify

SpecClassify == InitClassify /\ [][NextClassify]_vars

(***************************************************************************)
(* Properties.                                                             *)
(***************************************************************************)
Runs == 1..Len(runs)

Pending == {r \in Runs : runs[r].status = "awaiting"}

\* run r reaches Complete in this step
Completes(r) ==
  /\ r \in 1..Len(runs')
  /\ runs'[r].status = "complete"
  /\ (r \in Runs => runs[r].status # "complete")

\* run r reaches Failed in this step
Fails(r) ==
  /\ r \in Runs
  /\ runs[r].status = "awaiting"
  /\ runs'[r].status = "failed"

TimedOut(run) == run.err.kind = "timeout"

\* C1: a run none of whose requests timed out ends Complete with exactly N
\* review entries, entry i carrying the SAN of move i, after exactly N
\* classifier calls made in ply order.
C1_CompleteRunHasAllEntries ==
  [][\A r \in 1..Len(runs') :
        Completes(r) =>
          LET h == runs'[r].history
          IN /\ Len(ac'.gameReviewData) = Len(h)
             /\ \A k \in 1..Len(h) : ac'.gameReviewData[k].move = h[k]
             /\ Len(runs'[r].log) = Len(h)
             /\ \A k \in 1..Len(h) : runs'[r].log[k].ply = k - 1]_vars

\* C2: every evaluation that reached the classifier was resolved by the
\* bestmove of the search its own request started, and its scores came from
\* info lines of that search only.
C2_ResolvedByOwnSearchOnly ==
  \A r \in Runs : \A k \in 1..Len(runs[r].log) : runs[r].log[k].own

\* C3: at most one review run is in progress.
C3_AtMostOneRunInProgress == Cardinality(Pending) <= 1

\* C4: a request whose timer fires rejects with a timeout error naming its
\* FEN; the run is then Failed, never Complete, appends no review entry and
\* starts no evaluation request from then on.
C4_TimeoutFailsTheRun ==
  [][\A r \in Runs :
        /\ TimedOut(runs'[r]) =>
             /\ runs'[r].status = "failed"
             /\ runs'[r].err.fen = Fen(SubSeq(runs'[r].history, 1, runs'[r].i))
             /\ runs'[r].err.fen = runs'[r].req.fen
        /\ Fails(r) =>
             /\ TimedOut(runs'[r])
             /\ runs'[r].log = runs[r].log
             /\ ac'.gameReviewData = ac.gameReviewData
        /\ runs[r].status = "failed" =>
             /\ runs'[r] = runs[r]
             /\ eng'.search.tag[1] = "review" /\ eng'.search.tag[2] = r
                  => eng'.search = eng.search]_vars

C4_Witness ==
  \E r \in Runs :
     /\ runs[r].status = "failed"
     /\ runs[r].i = 1
     /\ eng.search.kind # "none"

\* C5: when a run fails at a ply k > 0 the review entry sequence is empty
\* after the failure.
C5_EntriesDiscardedOnFailure ==
  [][\A r \in Runs :
        (Fails(r) /\ runs[r].i > 0) => ac'.gameReviewData = <<>>]_vars

\* C6: the loss of ply i is previousBestLine[0] - evaluations[0] for a White
\* move and evaluations[0] - previousBestLine[0] for a Black move, where
\* previousBestLine is [20, 15] at ply 0 and the evaluations of ply i-1 after.
C6_LossFormula ==
  \A r \in Runs : \A k \in 1..Len(runs[r].log) :
     LET call == runs[r].log[k]
         previousBestLine == IF k = 1 THEN <<20, 15>> ELSE runs[r].log[k - 1].evaluations
     IN call.loss = IF k % 2 = 1
                    THEN previousBestLine[1] - call.evaluations[1]
                    ELSE call.evaluations[1] - previousBestLine[1]

C6_Witness ==
  \E r \in Runs :
     /\ Len(runs[r].log) >= 2
     /\ runs[r].log[1].loss = 20
     /\ runs[r].log[2].loss = -250

\* C7: the loss of ply i compares the best-line evaluation of the position
\* before move i with that of the position after move i (the evaluation
\* resolved for ply i+1), from the mover's point of view.
C7_LossMeasuresOwnMove ==
  \A r \in Runs : \A k \in 1..Len(runs[r].log) :
     (k + 1 <= Len(runs[r].log) /\ runs[r].log[k].own /\ runs[r].log[k + 1].own) =>
        LET before == runs[r].log[k].evaluations[1]
            after == runs[r].log[k + 1].evaluations[1]
        IN runs[r].log[k].loss = IF k % 2 = 1 THEN before - after ELSE after - before

\* C8: a move whose game-so-far is exactly the move sequence of an opening
\* table entry is classified Theory by the pipeline.
C8_OpeningMoveIsTheory ==
  \A r \in Runs : \A k \in 1..Len(runs[r].log) :
     Pgn(SubSeq(runs[r].history, 1, k)) \in OpeningPgns
        => runs[r].log[k].classification = "Theory"

\* C9: _classifyMove is Theory if and only if the trimmed PGN-so-far equals
\* the PGN of a table entry.
C9_TheoryOnlyOnExactMatch ==
  probe.result # "none" =>
     (probe.result = "Theory" <=> Trim(probe.pgn) \in OpeningPgns)

\* C10: whatever the loss and the criticality, _classifyMove is Theory when
\* the PGN-so-far equals the PGN of a table entry.
C10_OpeningOverridesLadder ==
  (probe.result # "none" /\ probe.pgn \in OpeningPgns) => probe.result = "Theory"

C10_Witness ==
  /\ probe.result = "Theory"
  /\ probe.pgn \in OpeningPgns
  /\ probe.loss > 150
  /\ probe.isCritical


\* the tier the loss and the criticality stand for, by the band of the loss
LadderTier(loss, isCritical) ==
  LET l == IF loss < 0 THEN 0 ELSE loss
  IN CASE isCritical /\ l \in 0..9 -> "Brilliant"
       [] ~(isCritical /\ l \in 0..9) /\ l \in 0..2 -> "Best"
       [] ~(isCritical /\ l \in 0..9) /\ l \in 3..10 -> "Excellent"
       [] l \in 11..30 -> "Okay"
       [] l \in 31..80 -> "Inaccuracy"
       [] l \in 81..150 -> "Mistake"
       [] l >= 151 -> "Blunder"

CpLines == {-50, 0, 50, 250}
MateLines == {-3, -1, 1, 2}

ScoreLines ==
  {[kind |-> "cp", n |-> n] : n \in CpLines}
    \cup {[kind |-> "mate", n |-> n] : n \in MateLines}

NoneSaid == [k \in {} |-> [kind |-> "none", n |-> 0]]

InitExtract ==
  /\ InitWorld
  /\ probe \in {[phase |-> "listening", isWhiteTurn |-> t, scores |-> NoScores,
                  said |-> NoneSaid, resolved |-> <<>>, isCritical |-> FALSE] :
                  t \in BOOLEAN}

ExtractInfo ==
  /\ probe.phase = "listening"
  /\ \E pv \in 1..MULTI_PV, line \in ScoreLines :
        probe' = [probe EXCEPT
                    !.scores = ScoreLine(@, pv - 1, line.kind, line.n),
                    !.said = [k \in DOMAIN @ \cup {pv - 1} |->
                                IF k = pv - 1 THEN line ELSE @[k]]]
  /\ UNCHANGED <<app, ac, eng, runs, cnt>>

ExtractBestmove ==
  /\ probe.phase = "listening"
  /\ LET evaluations == FinalScores(probe.scores, probe.isWhiteTurn)
     IN probe' = [probe EXCEPT !.phase = "resolved",
                               !.resolved = evaluations,
                               !.isCritical = IsCritical(evaluations)]
  /\ UNCHANGED <<app, ac, eng, runs, cnt>>

NextExtract == ExtractInfo \/ ExtractBestmove

SpecExtract == InitExtract /\ [][NextExtract]_vars

Resolved == probe.phase = "resolved"

\* the ranks (1-based) that reported a score before the bestmove line
Reported == {k \in 1..MULTI_PV : (k - 1) \in DOMAIN probe.said}

SaidBy(k) == probe.said[k - 1]

\* C12: isCritical is true exactly when the best-line and the second-best-line
\* evaluations resolved for the position lie strictly more than 200
\* centipawns apart.
C12_CriticalIffSwingAbove200 ==
  Resolved =>
     (probe.isCritical <=>
        (probe.resolved[1] - probe.resolved[2] > 200
           \/ probe.resolved[2] - probe.resolved[1] > 200))

C12_Witness ==
  /\ Resolved
  /\ probe.resolved = <<250, 50>>
  /\ ~probe.isCritical

\* the value of a score line for the side to move, and seen from White
ValueSaid(line) ==
  IF line.kind = "mate" THEN (IF line.n > 0 THEN 10000 ELSE -10000) ELSE line.n

FromWhite(v) == IF probe.isWhiteTurn THEN v ELSE -v

\* C13: for every rank that reported a score before the bestmove line, the
\* element of the resolved list at that rank is the last score reported for
\* the rank, seen from White, whatever the value (0 and mates included).
C13_ResolvedIsLastReported ==
  Resolved =>
     \A k \in Reported : probe.resolved[k] = FromWhite(ValueSaid(SaidBy(k)))

\* C14: when some rank reported and rank k did not, the request resolves and
\* the element at rank k equals the element resolved for the lowest rank that
\* reported.
C14_MissingRankTakesBestAvailable ==
  (Resolved /\ Reported # {}) =>
     LET best == CHOOSE b \in Reported : \A j \in Reported : b <= j
     IN \A k \in (1..MULTI_PV) \ Reported : probe.resolved[k] = probe.resolved[best]

C14_Witness ==
  /\ Resolved
  /\ Reported = {1}
  /\ SaidBy(1) = [kind |-> "cp", n |-> 250]
  /\ ~probe.isWhiteTurn
  /\ probe.resolved = <<-250, -250>>

C16_MateIsSignedSentinel ==
  Resolved =>
     \A k \in Reported :
        (SaidBy(k).kind = "mate" /\ SaidBy(k).n # 0) =>
           LET whiteMates == (SaidBy(k).n > 0) <=> probe.isWhiteTurn
           IN probe.resolved[k] = IF whiteMates THEN 10000 ELSE -10000

C16_Witness ==
  /\ Resolved
  /\ ~probe.isWhiteTurn
  /\ 1 \in Reported
  /\ SaidBy(1) = [kind |-> "mate", n |-> -3]
  /\ probe.resolved[1] = 10000

\* C17: every evaluation request is settled at most once, by its bestmove
\* or by its timer and never both, and its cleanup runs exactly once with
\* the settlement: once settled, the request has neither listener nor timer,
\* so that no later bestmove and no timer reaches it again.
C17_SettledAndCleanedOnce ==
  \A r \in Runs :
     LET q == runs[r].req
     IN /\ q.cleanups <= 1
        /\ (q.settled # "pending") <=> (q.cleanups = 1)
        /\ (runs[r].status = "awaiting") <=> (q.settled = "pending" /\ q.listener /\ q.timer)
        /\ (q.settled # "pending") => (~q.listener /\ ~q.timer)
        /\ (q.settled = "rejected") <=> (runs[r].status = "failed")
        /\ (q.settled = "rejected") =>
              (runs[r].err.fen = q.fen /\ Len(runs[r].log) = runs[r].i)
        /\ (q.settled = "resolved") =>
              (runs[r].status = "complete" /\ Len(runs[r].log) = runs[r].i)
        /\ \A k \in 1..Len(runs[r].log) :
              runs[r].log[k].ply = k - 1 /\ runs[r].log[k].cleanups = 1

\* a request that timed out while the bestmove of its search is on its way
C17_Witness ==
  \E r \in Runs :
     /\ runs[r].req.settled = "rejected"
     /\ runs[r].req.cleanups = 1
     /\ eng.outbox # <<>>
     /\ Head(eng.outbox).t = "bestmove"
     /\ Head(eng.outbox).tag = ReviewTag(r, runs[r].i)

(***************************************************************************)
(* runGameReview called while a run is in progress.  The button that calls *)
(* it is disabled for as long as isReviewing is true, so the call is made  *)
(* directly: ReviewCall makes it in any state of the program where         *)
(* isReviewing is true and keeps the state before and after it in probe.   *)
(***************************************************************************)
ReviewCall ==
  /\ probe = NoProbe
  /\ ac.isReviewing
  /\ Commit(runGameReview(World))
  /\ probe' = [before |-> World, after |-> runGameReview(World)]
  /\ UNCHANGED cnt

NextReentry == (probe = NoProbe /\ Next) \/ ReviewCall

SpecReentry == Init /\ [][NextReentry]_vars

\* C18: runGameReview called while isReviewing is true posts no engine
\* command, leaves the review entries as they are and changes no flag: the
\* state after the call is the state before it.
C18_ReviewCallWhileReviewingIsNoOp ==
  (probe # NoProbe) =>
     /\ probe.after.eng = probe.before.eng
     /\ probe.after.ac = probe.before.ac
     /\ probe.after.runs = probe.before.runs
     /\ probe.after.app = probe.before.app
     /\ eng = probe.before.eng
     /\ ac = probe.before.ac
     /\ runs = probe.before.runs

C18_Witness ==
  /\ probe # NoProbe
  /\ probe.before.ac.isReviewing
  /\ probe.before.ac.gameReviewData # <<>>
  /\ probe.before.eng.search.kind # "none"
  /\ \E r \in 1..Len(probe.before.runs) : probe.before.runs[r].status = "awaiting"

\* the step is taken by a consumer of the engine other than the pipeline:
\* a move of the user or of the AI, a new game, the entry into analysis mode
\* or a change of the viewed position
OtherConsumerStep ==
  UserMove \/ AiMoveTimer \/ EnterAnalysisMode \/ InitGameClick \/ Navigate

\* C19: while an evaluation request of the pipeline is pending, a step of
\* another consumer posts no command to the engine: it leaves the running
\* search, the position and the MultiPV option of the engine as they are.
C19_NoOtherConsumerWhilePending ==
  [][(Pending # {} /\ OtherConsumerStep) =>
        (eng'.search = eng.search /\ eng'.pos = eng.pos /\ eng'.multiPV = eng.multiPV)]_vars

\* C20: every search not started by the pipeline was posted while the MultiPV
\* option of the engine was 1.
C20_OtherSearchesHaveMultiPV1 ==
  (eng.search.kind # "none" /\ eng.search.tag[1] # "review") => eng.search.multipv = 1

\* C21: the review entries are an index-aligned prefix of the game under
\* review: no more entries than the game has moves and entry i carrying the
\* SAN of move i.
C21_EntriesAlignedWithGame ==
  /\ Len(ac.gameReviewData) <= Len(ac.game)
  /\ \A k \in 1..Len(ac.gameReviewData) :
        k <= Len(ac.game) => ac.gameReviewData[k].move = ac.game[k]

\* C22: the review entries are empty right after a new review starts and
\* right after analysis mode is exited, and stay empty outside analysis mode.
C22_EntriesDiscarded ==
  [][/\ (Len(runs') > Len(runs)) => ac'.gameReviewData = <<>>
     /\ (app.isInAnalysisMode /\ ~app'.isInAnalysisMode) => ac'.gameReviewData = <<>>
     /\ (~app.isInAnalysisMode /\ ~app'.isInAnalysisMode) => ac'.gameReviewData = <<>>]_vars

\* the FEN of the position the user is viewing in analysis mode
ViewedFen ==
  IF app.viewingMoveIndex = Null THEN Fen(app.reviewGame)
  ELSE Fen(SubSeq(app.reviewGame, 1, app.viewingMoveIndex + 1))

\* C23: a search of the live analysis (go infinite) running in analysis mode
\* is a search of the position the user is viewing.
C23_LiveSearchOnViewedPosition ==
  (app.isInAnalysisMode /\ eng.search.kind = "infinite") => eng.search.fen = ViewedFen

\* the info line the live accumulator took its score from
LiveLine == ac.currentAnalysisInfo.line[1]

\* C24: the numeric score stored in live analysis for an info line of the
\* search of the viewed position is the score of the line, negated exactly
\* when Black is to move in that position.
C24_LiveScoreSeenFromWhite ==
  (/\ app.isInAnalysisMode
   /\ ac.currentAnalysisInfo.has
   /\ LiveLine.kind = "cp"
   /\ LiveLine.tag = LiveTag
   /\ LiveLine.fen = ViewedFen) =>
     ac.currentAnalysisInfo.numericScore =
        IF LiveLine.fen.turn = "b" THEN -LiveLine.cp ELSE LiveLine.cp

\* C25: in analysis mode the live accumulator holds values of info lines of a
\* live search of the position the user is viewing, never of a search that
\* was stopped when the position changed.
C25_NoStaleInfoAfterChange ==
  (app.isInAnalysisMode /\ ac.currentAnalysisInfo.has) =>
     (LiveLine.tag = LiveTag /\ LiveLine.fen = eng.pos)

(***************************************************************************)
(* onPositionChanged called in any state of the program, analysis active   *)
(* or not, with a position of the review game.  probe keeps the flags it   *)
(* was called under, the commands it posted and what it left behind.       *)
(***************************************************************************)
PositionCall ==
  /\ probe = NoProbe
  /\ \E index \in {Null} \cup 0..(Len(app.reviewGame) - 2) :
        LET fen == IF index = Null THEN Fen(app.reviewGame)
                   ELSE Fen(SubSeq(app.reviewGame, 1, index + 1))
            before == World
            after == onPositionChanged(before, fen, index)
        IN /\ Commit(after)
           /\ probe' = [fen |-> fen, moveIndex |-> index,
                        isAnalyzing |-> before.ac.isAnalyzing,
                        isInfiniteAnalysis |-> before.ac.isInfiniteAnalysis,
                        isReviewing |-> before.ac.isReviewing,
                        wasSearching |-> Searching(before),
                        unchanged |-> after = before,
                        sent |-> after.eng.sent,
                        info |-> after.ac.currentAnalysisInfo,
                        search |-> after.eng.search]
  /\ UNCHANGED cnt

NextPosition == (probe = NoProbe /\ Next) \/ PositionCall

SpecPosition == Init /\ [][NextPosition]_vars

\* C26: with analysis active, onPositionChanged posts stop first, empties the
\* live accumulator and then posts position fen <new FEN> and go infinite
\* exactly when continuous analysis is on and no review is running; with
\* analysis not active it posts nothing and changes nothing.
C26_PositionChangeProtocol ==
  (probe # NoProbe) =>
     IF ~probe.isAnalyzing
     THEN probe.unchanged /\ probe.sent = <<>>
     ELSE /\ probe.info = NoAnalysisInfo
          /\ probe.sent =
               <<Command("stop", Fen(<<>>), 0)>> \o
                 (IF probe.isInfiniteAnalysis /\ ~probe.isReviewing
                  THEN <<Command("position", probe.fen, 0),
                         Command("infinite", Fen(<<>>), 0)>>
                  ELSE <<>>)

C26_Witness ==
  /\ probe # NoProbe
  /\ probe.isAnalyzing /\ probe.isInfiniteAnalysis /\ ~probe.isReviewing
  /\ probe.wasSearching
  /\ probe.moveIndex = 0
  /\ Len(probe.sent) = 3
  /\ probe.search.kind = "infinite" /\ probe.search.fen = probe.fen

\* C27: once the runs have reached Complete or Failed and none is in
\* progress, the button that starts a review is enabled again in the analysis
\* session.
C27_RestartableAfterTerminalState ==
  (/\ app.isInAnalysisMode
   /\ runs # <<>>
   /\ ~ac.isReviewing
   /\ \A r \in Runs : runs[r].status \in {"complete", "failed"}) =>
     ~ac.btnDisabled

\* run r is started in this step
Starts(r) == r = Len(runs') /\ Len(runs') > Len(runs)

\* C28: a review of a game with no moves issues no evaluation request and
\* ends Complete at once, with no review entry and an evaluation curve that
\* is the single prior point of 20 centipawns.
C28_EmptyGameCompletes ==
  [][\A r \in 1..Len(runs') :
        (Starts(r) /\ runs'[r].history = <<>>) =>
           /\ runs'[r].status = "complete"
           /\ runs'[r].req = NoReq
           /\ runs'[r].err = NoErr
           /\ eng'.search.tag[1] # "review"
           /\ ac'.gameReviewData = <<>>
           /\ ac'.chart = <<20>>]_vars

C28_Witness ==
  \E r \in Runs :
     /\ runs[r].history = <<>>
     /\ runs[r].status = "complete"
     /\ runs[r].req = NoReq
     /\ ac.chart = <<20>>

\* C29: when a run reaches Complete the curve handed to the chart has N+1
\* points, the prior of 20 and then the score of every review entry in ply
\* order; a run that reaches Failed hands no curve to the chart.
C29_CurveOnComplete ==
  [][\A r \in 1..Len(runs') :
        /\ Completes(r) =>
              /\ Len(ac'.chart) = Len(runs'[r].history) + 1
              /\ ac'.chart[1] = 20
              /\ \A k \in 1..Len(runs'[r].history) :
                    /\ k <= Len(ac'.gameReviewData)
                    /\ k + 1 <= Len(ac'.chart)
                    /\ ac'.chart[k + 1] = ac'.gameReviewData[k].score
        /\ Fails(r) => ac'.chart = ac.chart]_vars

(***************************************************************************)
(* The opening name shown during play.  _initState sorts OPENINGS in place *)
(* by descending PGN length (Array.prototype.sort is stable);              *)
(* _updateOpeningDisplay takes the first entry the PGN starts with.        *)
(***************************************************************************)
RECURSIVE InsertByLength(_, _)
InsertByLength(sorted, o) ==
  IF sorted = <<>> THEN <<o>>
  ELSE IF Len(Head(sorted).pgn) >= Len(o.pgn)
       THEN <<Head(sorted)>> \o InsertByLength(Tail(sorted), o)
       ELSE <<o>> \o sorted

RECURSIVE SortByLength(_, _)
SortByLength(table, n) ==
  IF n = 0 THEN <<>> ELSE InsertByLength(SortByLength(table, n - 1), table[n])

\* OPENINGS after OPENINGS.sort((a, b) => b.pgn.length - a.pgn.length)
SortedOpenings == SortByLength(OPENINGS, Len(OPENINGS))

\* the lookup on the table as written, never sorted
foundOpeningUnsorted(pgn) ==
  LET hits == {k \in 1..Len(OPENINGS) : StartsWith(pgn, OPENINGS[k].pgn)}
  IN IF hits = {} THEN ""
     ELSE OPENINGS[CHOOSE k \in hits : \A j \in hits : k <= j].name

\* OPENINGS.find(o => pgn.startsWith(o.pgn))?.name || ''
foundOpening(pgn) ==
  LET hits == {k \in 1..Len(SortedOpenings) : StartsWith(pgn, SortedOpenings[k].pgn)}
  IN IF hits = {} THEN ""
     ELSE SortedOpenings[CHOOSE k \in hits : \A j \in hits : k <= j].name

\* the PGNs of the lines of the table, of their leading parts and of their
\* continuations, and those of the line of play
DisplayPgns ==
  PgnInputs \cup {p \o <<" ", "2", ".", " ", "a", "3">> : p \in OpeningPgns}

InitOpening ==
  /\ InitWorld
  /\ probe \in {[pgn |-> p, shown |-> FALSE, name |-> ""] : p \in DisplayPgns}

UpdateOpeningDisplay ==
  /\ ~probe.shown
  /\ probe' = [probe EXCEPT !.shown = TRUE, !.name = foundOpening(probe.pgn)]
  /\ UNCHANGED <<app, ac, eng, runs, cnt>>

NextOpening == UpdateOpeningDisplay

SpecOpening == InitOpening /\ [][NextOpening]_vars

\* the entries of the table, as written, that the PGN starts with
PrefixEntries(pgn) ==
  {k \in 1..Len(OPENINGS) : StartsWith(pgn, OPENINGS[k].pgn)}

\* C30: the opening name displayed for a PGN is the name of the longest
\* entry of the table that the PGN starts with, and it is empty when the PGN
\* starts with no entry.
C30_LongestPrefixNameShown ==
  probe.shown =>
     IF PrefixEntries(probe.pgn) = {} THEN probe.name = ""
     ELSE \E k \in PrefixEntries(probe.pgn) :
             /\ \A j \in PrefixEntries(probe.pgn) :
                   Len(OPENINGS[j].pgn) <= Len(OPENINGS[k].pgn)
             /\ probe.name = OPENINGS[k].name

C30_Witness ==
  /\ probe.shown
  /\ probe.pgn = Pgn(MasterLine) \o <<" ", "a", "6">>
  /\ probe.name = "Ruy Lopez"
  /\ Cardinality(PrefixEntries(probe.pgn)) = 3

\* rank of a tier of the threshold ladder, the worst tier lowest
TierRank(tier) ==
  CASE tier = "Blunder" -> 0
    [] tier = "Mistake" -> 1
    [] tier = "Inaccuracy" -> 2
    [] tier = "Okay" -> 3
    [] tier = "Excellent" -> 4
    [] tier = "Best" -> 5

\* C32: for a non-critical call whose PGN the opening test does not match,
\* the tier never gets better when the loss grows: every larger loss is
\* classified at the same tier or a worse one.
C32_TierMonotoneInLoss ==
  (probe.result # "none" /\ ~probe.isCritical /\ ~OpeningMatch(probe.pgn)) =>
     \A loss2 \in LossValues :
        probe.loss < loss2 =>
           TierRank(_classifyMove(loss2, probe.pgn, probe.isCritical))
              <= TierRank(probe.result)

C32_Witness ==
  /\ probe.result = "Mistake"
  /\ probe.loss = 81
  /\ ~probe.isCritical
  /\ ~OpeningMatch(probe.pgn)
  /\ _classifyMove(151, probe.pgn, probe.isCritical) = "Blunder"

(***************************************************************************)
(* The classifier called twice with the same arguments, each time on a     *)
(* controller in another state and on the opening table as written or as   *)
(* _initState has sorted it.                                               *)
(***************************************************************************)
\* the opening test of the classifier on a given state of the global table
OpeningMatchOn(table, pgn) ==
  \E k \in 1..Len(table) :
     /\ StartsWith(table[k].pgn, Trim(pgn))
     /\ Len(Trim(pgn)) <= Len(table[k].pgn)

\* an opening test that looks at the first entry of the table only
_classifyMoveFirstEntry(controller, table, loss, pgn, isCritical) ==
  IF StartsWith(table[1].pgn, Trim(pgn)) /\ Len(Trim(pgn)) <= Len(table[1].pgn)
  THEN "Theory"
  ELSE IF isCritical /\ loss < 10 THEN "Brilliant"
  ELSE IF loss > 150 THEN "Blunder"
  ELSE IF loss > 80 THEN "Mistake"
  ELSE IF loss > 30 THEN "Inaccuracy"
  ELSE IF loss > 10 THEN "Okay"
  ELSE IF loss > 2 THEN "Excellent"
  ELSE "Best"

\* _classifyMove as a method of a controller, with the global table it reads:
\* the body reads no field of `this`
_classifyMoveOn(controller, table, loss, pgn, isCritical) ==
  IF OpeningMatchOn(table, pgn) THEN "Theory"
  ELSE IF isCritical /\ loss < 10 THEN "Brilliant"
  ELSE IF loss > 150 THEN "Blunder"
  ELSE IF loss > 80 THEN "Mistake"
  ELSE IF loss > 30 THEN "Inaccuracy"
  ELSE IF loss > 10 THEN "Okay"
  ELSE IF loss > 2 THEN "Excellent"
  ELSE "Best"

\* a review entry as runGameReview appends it
SomeEntry ==
  [move |-> "e4", classification |-> "Best", score |-> 0, isCritical |-> FALSE]

\* controller states the calls are made in
ControllerStates ==
  {[ac EXCEPT !.isAnalyzing = a, !.isReviewing = r, !.gameReviewData = d] :
     a \in BOOLEAN, r \in BOOLEAN, d \in {<<>>, <<SomeEntry>>}}

InitPure ==
  /\ InitWorld
  /\ probe \in {[loss |-> l, pgn |-> p, isCritical |-> c, results |-> <<>>,
                  sorted |-> <<>>] :
                  l \in LossValues, p \in PgnInputs, c \in BOOLEAN}

ClassifyOn ==
  /\ Len(probe.results) < 2
  /\ \E controller \in ControllerStates, sorted \in BOOLEAN :
        /\ ac' = controller
        /\ probe' = [probe EXCEPT
                       !.results = Append(@, _classifyMoveOn(controller,
                                     IF sorted THEN SortedOpenings ELSE OPENINGS,
                                     probe.loss, probe.pgn, probe.isCritical)),
                       !.sorted = Append(@, sorted)]
  /\ UNCHANGED <<app, eng, runs, cnt>>

NextPure == ClassifyOn

SpecPure == InitPure /\ [][NextPure]_vars

\* C34: two calls of the classifier with the same loss, PGN and criticality
\* return the same tier, whatever the state of the controller they are made
\* on and whether the opening table is as written or already sorted; the tier
\* is the one the review pipeline gets for these arguments.
C34_SameArgumentsSameTier ==
  \A k \in 1..Len(probe.results) :
     /\ probe.results[k] = probe.results[1]
     /\ probe.results[k] = _classifyMove(probe.loss, probe.pgn, probe.isCritical)

C34_Witness ==
  /\ Len(probe.results) = 2
  /\ probe.sorted = <<FALSE, TRUE>>
  /\ probe.results = <<"Theory", "Theory">>
  /\ probe.pgn = <<"1", ".", " ", "e", "4">>
  /\ ac.isReviewing /\ ac.gameReviewData # <<>>

(***************************************************************************)
(* The continuous-analysis toggle switched off in any state of the program *)
(* in which it can be operated.  probe keeps the commands the handler      *)
(* posted and what it found and left in the controller.                    *)
(***************************************************************************)
ToggleOff ==
  /\ probe = NoProbe
  /\ app.isInAnalysisMode
  /\ ~ac.toggleDisabled
  /\ ac.isInfiniteAnalysis
  /\ LET before == World
         after == toggleChange(before, FALSE)
     IN /\ Commit(after)
        /\ probe' = [sent |-> after.eng.sent,
                     wasSearching |-> Searching(before),
                     infoBefore |-> before.ac.currentAnalysisInfo,
                     infoAfter |-> after.ac.currentAnalysisInfo,
                     dataBefore |-> before.ac.gameReviewData,
                     dataAfter |-> after.ac.gameReviewData,
                     isInfiniteAnalysis |-> after.ac.isInfiniteAnalysis]
  /\ UNCHANGED cnt

NextToggle == (probe = NoProbe /\ Next) \/ ToggleOff

SpecToggle == Init /\ [][NextToggle]_vars

\* C33: switching continuous analysis off posts exactly one command, stop,
\* and leaves the live accumulator and the review entries as they were.
C33_ToggleOffOnlyStops ==
  (probe # NoProbe) =>
     /\ probe.sent = <<Command("stop", Fen(<<>>), 0)>>
     /\ probe.infoAfter = probe.infoBefore
     /\ probe.dataAfter = probe.dataBefore
     /\ ~probe.isInfiniteAnalysis

C33_Witness ==
  /\ probe # NoProbe
  /\ probe.wasSearching
  /\ probe.infoBefore.has
  /\ probe.dataBefore # <<>>
  /\ probe.sent = <<Command("stop", Fen(<<>>), 0)>>

(***************************************************************************)
(* An engine line routed to handleEngineMessage, and then analyzePosition   *)
(* called, in any state of analysis mode, a review running or not.  probe  *)
(* keeps the flags of the calls, the accumulator around the first and the  *)
(* commands posted by the second.                                          *)
(***************************************************************************)
\* lines of the search the engine is running, or of none
RoutedMessages ==
  {InfoMsg(eng.search, 1, cp) : cp \in CpValues} \cup {BestmoveMsg(eng.search)}

HandleCall ==
  /\ probe = NoProbe
  /\ app.isInAnalysisMode
  /\ \E msg \in RoutedMessages :
        LET before == World
            after == handleEngineMessage(before, msg)
        IN /\ Commit(after)
           /\ probe' = [phase |-> "handled", msg |-> msg,
                        isAnalyzing |-> before.ac.isAnalyzing,
                        isReviewing |-> before.ac.isReviewing,
                        infoBefore |-> before.ac.currentAnalysisInfo,
                        infoAfter |-> after.ac.currentAnalysisInfo,
                        sent |-> <<>>]
  /\ UNCHANGED cnt

AnalyzeCall ==
  /\ probe # NoProbe
  /\ probe.phase = "handled"
  /\ \E fen \in {ViewedFen, Fen(app.reviewGame)} :
        LET before == World
            after == analyzePosition(before, fen)
        IN /\ Commit(after)
           /\ probe' = [probe EXCEPT !.phase = "analyzed", !.sent = after.eng.sent]
  /\ UNCHANGED cnt

NextGuarded == (probe = NoProbe /\ Next) \/ HandleCall \/ AnalyzeCall

SpecGuarded == Init /\ [][NextGuarded]_vars

\* C37: while a review is running, handleEngineMessage leaves the live
\* accumulator as it is whatever the engine line, and analyzePosition posts
\* no command.
C37_LiveAnalysisSilentInReview ==
  (probe # NoProbe /\ probe.isReviewing) =>
     /\ probe.infoAfter = probe.infoBefore
     /\ probe.sent = <<>>

C37_Witness ==
  /\ probe # NoProbe
  /\ probe.phase = "analyzed"
  /\ probe.isReviewing /\ probe.isAnalyzing
  /\ probe.msg.t = "info"
  /\ probe.infoBefore = NoAnalysisInfo
  /\ probe.sent = <<>>

(***************************************************************************)
(* The engine transport.  _initStockfish returns a promise that the        *)
(* worker's onerror rejects and the `uciok` line resolves; the             *)
(* application is initialised (controllers, events, initGame) when it      *)
(* resolves, and the loading indicator shows the error when it rejects.    *)
(* probe keeps the state of the promise, the worker errors that occurred   *)
(* and those the page showed.                                              *)
(***************************************************************************)
\* new Promise(...) of _initStockfish: rejected at once when the engine code
\* is missing, else pending until uciok or an error
InitStockfish(codePresent) ==
  [promise |-> IF codePresent THEN "pending" ELSE "rejected",
   surfaced |-> IF codePresent THEN 0 ELSE 1,
   errors |-> 0]

InitTransport ==
  /\ app = Blank.app
  /\ ac = Blank.ac
  /\ eng = Blank.eng
  /\ runs = Blank.runs
  /\ cnt = [sessions |-> 0, restarts |-> 0]
  /\ probe \in {InitStockfish(codePresent) : codePresent \in BOOLEAN}

\* readyListener receives uciok: resolve(), then the .then of
\* _initializeApplication runs initGame
Uciok ==
  /\ probe.promise = "pending"
  /\ Commit(initGame(Blank))
  /\ probe' = [probe EXCEPT !.promise = "resolved"]
  /\ UNCHANGED cnt

\* the worker raises an error event: onerror calls reject(e), which settles
\* the promise and reaches the .catch only while the promise is pending
WorkerError ==
  /\ probe.promise \in {"pending", "resolved"}
  /\ probe.errors = 0
  /\ probe' = IF probe.promise = "pending"
              THEN [probe EXCEPT !.promise = "rejected", !.errors = @ + 1,
                                 !.surfaced = @ + 1]
              ELSE [probe EXCEPT !.errors = @ + 1]
  /\ UNCHANGED <<app, ac, eng, runs, cnt>>

\* the page after initialisation: Next leaves probe as it is
Initialised ==
  /\ probe.promise = "resolved"
  /\ probe.errors = 0
  /\ Next

NextTransport == Uciok \/ WorkerError \/ Initialised

SpecTransport == InitTransport /\ [][NextTransport]_vars

\* C31: every worker error is surfaced as a fatal failure, also one that
\* occurs after initialisation has succeeded.
C31_WorkerErrorSurfaced ==
  probe.errors > 0 => probe.surfaced >= probe.errors

(***************************************************************************)
(* The evaluation shown during play.  Init draws the game on the board and *)
(* a score line of a search of its position; PlayInfo hands the line to    *)
(* the play-mode branch of _handleStockfishMessage.                        *)
(***************************************************************************)
\* the value handed to _updateEvalBar for an info line: kind is "mate" for a
\* line holding `score mate n`, "cp" for one holding `score cp n`
playEvaluation(turn, kind, n) ==
  IF kind = "mate" THEN (IF turn = "w" THEN MATE_SCORE ELSE -MATE_SCORE)
  ELSE IF turn = "w" THEN n ELSE -n

PlayLines ==
  ScoreLines \cup {[kind |-> "cp", n |-> -250], [kind |-> "mate", n |-> 3]}

InitEvalBar ==
  /\ InitWorld
  /\ probe \in {[game |-> SubSeq(MasterLine, 1, k), line |-> line,
                  shown |-> FALSE, evaluation |-> 0] :
                  k \in 0..Len(MasterLine), line \in PlayLines}

PlayInfo ==
  /\ ~probe.shown
  /\ probe' = [probe EXCEPT
                 !.shown = TRUE,
                 !.evaluation = playEvaluation(Turn(probe.game), probe.line.kind,
                                               probe.line.n)]
  /\ UNCHANGED <<app, ac, eng, runs, cnt>>

NextEvalBar == PlayInfo

SpecEvalBar == InitEvalBar /\ [][NextEvalBar]_vars

\* C38: in play mode a line `score mate n` of the position on the board sets
\* the evaluation to +MATE_SCORE when White is the side that mates and to
\* -MATE_SCORE when Black is; the side to move mates when n is positive and
\* is mated when n is negative.
C38_PlayMateSignedByMatingSide ==
  (probe.shown /\ probe.line.kind = "mate") =>
     probe.evaluation =
        IF (Turn(probe.game) = "w") = (probe.line.n > 0)
        THEN MATE_SCORE ELSE -MATE_SCORE

(***************************************************************************)
(* The Previous control.                                                   *)
(***************************************************************************)
\* ToNumber of JavaScript on viewingMoveIndex: null is 0 in a comparison
ToNumber(index) == IF index = Null THEN 0 ELSE index

\* _updateStatus, the disabled property it gives navPrev; it runs in every
\* handler that changes viewingMoveIndex or isInAnalysisMode
navPrevDisabled(w) ==
  LET isLivePlay == w.app.viewingMoveIndex = Null /\ ~w.app.isInAnalysisMode
  IN isLivePlay \/ ToNumber(w.app.viewingMoveIndex) <= 0

_navigatePrevious(w) ==
  LET history == IF w.app.isInAnalysisMode THEN w.app.reviewGame ELSE w.app.game
      currentIndex == IF w.app.viewingMoveIndex = Null THEN Len(history)
                      ELSE w.app.viewingMoveIndex
  IN navigateToMove(w, currentIndex - 1)

\* C40: in analysis mode of a game of N >= 2 moves, with the final position
\* viewed, Previous is enabled and one Previous step leaves the view on the
\* position after move N-2 (viewingMoveIndex = N-2).
C40_PreviousFromFinalPosition ==
  (/\ app.isInAnalysisMode
   /\ Len(app.reviewGame) >= 2
   /\ app.viewingMoveIndex = Null) =>
     /\ ~navPrevDisabled(World)
     /\ _navigatePrevious(World).app.viewingMoveIndex = Len(app.reviewGame) - 2

(***************************************************************************)
(* The engine commands of one run.                                         *)
(***************************************************************************)
\* the three commands of the request of the ply with 0-based index k
RequestCommands(history, k) ==
  <<Command("setoption", Fen(<<>>), 2),
    Command("position", Fen(SubSeq(history, 1, k)), 0),
    Command("depth", Fen(<<>>), REVIEW_DEPTH)>>

ResetCommand == Command("setoption", Fen(<<>>), 1)

\* the commands of the requests of plies 0..n-1, each followed by its reset
RECURSIVE SettledRequests(_, _)
SettledRequests(history, n) ==
  IF n = 0 THEN <<>>
  ELSE SettledRequests(history, n - 1)
         \o RequestCommands(history, n - 1) \o <<ResetCommand>>

\* C35: the commands a run has posted are one stop, then for each ply in
\* order setoption MultiPV 2, position fen of the position after the first i
\* moves, go depth REVIEW_DEPTH and, once that request has settled, setoption
\* MultiPV 1; the request of the next ply comes only after that reset, and
\* the request that is pending has not been reset yet.
C35_CommandsOfARunInOrder ==
  \A r \in Runs :
     runs[r].posted =
        <<Command("stop", Fen(<<>>), 0)>>
          \o SettledRequests(runs[r].history, runs[r].i)
          \o (CASE runs[r].status = "awaiting" ->
                     RequestCommands(runs[r].history, runs[r].i)
                [] runs[r].status = "failed" ->
                     RequestCommands(runs[r].history, runs[r].i) \o <<ResetCommand>>
                [] OTHER -> <<>>)

C35_Witness ==
  \E r \in Runs :
     /\ runs[r].status = "complete"
     /\ Len(runs[r].history) = 2
     /\ Len(runs[r].posted) = 9
     /\ runs[r].posted[7].fen = Fen(<<"e4">>)

(***************************************************************************)
(* Progress of a run.  setTimeout runs its callback once EVAL_TIMEOUT has  *)
(* passed unless the timer was cleared: a timer that stays armed fires.    *)
(* Nothing is assumed of the engine, which may stay silent for ever; its   *)
(* info lines change the scores a request collects and nothing of its      *)
(* progress, and are left out here.                                        *)
(***************************************************************************)
NextLive ==
  \/ UserMove
  \/ AiMoveTimer
  \/ EnterAnalysisMode
  \/ InitGameClick
  \/ RunReviewClick
  \/ Navigate
  \/ ToggleChange
  \/ EngineBestmove
  \/ Deliver
  \/ Timeout

SpecLive == Init /\ [][NextLive]_vars /\ WF_vars(Timeout)

\* C36: a run that is waiting for an evaluation eventually ends Complete or
\* Failed, and isReviewing is false when it has ended.
C36_RunEventuallyEnds ==
  \A r \in 1..MaxRuns :
     (r \in Runs /\ runs[r].status = "awaiting")
        ~> (/\ r \in Runs
            /\ runs[r].status \in {"complete", "failed"}
            /\ ~ac.isReviewing)

C36_Witness ==
  \E r \in Runs :
     /\ runs[r].status = "failed"
     /\ Len(runs[r].history) = 2
     /\ runs[r].i = 1
     /\ ~ac.isReviewing

(***************************************************************************)
(* Play against the engine.  _loadSettings reads the difficulty from       *)
(* localStorage: level 1 plays random moves by a timer, level 3 plays the  *)
(* bestmove of a search.                                                   *)
(***************************************************************************)
InitPlay ==
  /\ \E level \in {1, 3} :
        LET w == initGame([Blank EXCEPT !.app.aiDifficulty = level])
        IN /\ app = w.app
           /\ ac = w.ac
           /\ eng = [w.eng EXCEPT !.sent = <<>>]
           /\ runs = w.runs
  /\ cnt = [sessions |-> 0, restarts |-> 0]
  /\ probe = NoProbe

SpecPlay == InitPlay /\ [][Next]_vars

\* a bestmove line is applied as the move of the AI in this step
AiMoveByBestmove ==
  /\ ~app.isInAnalysisMode
  /\ eng.outbox # <<>>
  /\ Head(eng.outbox).t = "bestmove"
  /\ app.isStockfishThinking
  /\ app'.aiTimers = app.aiTimers
  /\ Len(app'.game) = Len(app.game) + 1

\* C39: in play mode a bestmove applied as the move of the AI is the result
\* of the search makeAiMove issued for the position on the board, never that
\* of a live-evaluation search or of a search of an earlier position.
C39_AiMoveFromOwnSearch ==
  [][AiMoveByBestmove =>
        /\ Head(eng.outbox).tag = AiTag
        /\ Head(eng.outbox).fen = Fen(app.game)]_vars
====
